---- MODULE Spec2Model ----
(***************************************************************************)
(* State-machine model of lib/hs-airdrop.js: the artifact loaders          *)
(* (readFile, readLeaves, readFaucetLeaves), the lookups (findLeaf,        *)
(* findFaucetLeaf), the nonce-bucket scan (findNonces), the two proof      *)
(* builders (createKeyProofs, createAddrProofs) and the entry point main.  *)
(***************************************************************************)
EXTENDS Integers, Sequences, FiniteSets, TLC

\* ------------------------------------------------------------------ bounds

\* Longest nonce-bucket file, in ciphertext records.
MaxRecords == 3

\* Longest options.entries list handed to createAddrProofs.
MaxEntries == 2

\* Longest leaf list / subtree list the lookup specification enumerates.
MaxLeaves == 2

\* ---------------------------------------------------------- program values

\* p.fee = pub.sponsor ? 500e6 : 100e6
SPONSOR_FEE == 500000000

NORMAL_FEE == 100000000

\* options.type is initialised to null in main and never assigned again.
OptionsType == "null"

\* options.bare is initialised to false in main and never assigned again.
OptionsBare == FALSE

Environments == {"production", "development"}

\* TREE_LEAVES = tree_chosen.leaves (scaled-down network parameter).
TREE_LEAVES(env) == IF env = "production" THEN 2 ELSE 1

\* SUBTREE_LEAVES = tree_chosen.subleaves (scaled-down network parameter).
SUBTREE_LEAVES(env) == 2

\* FAUCET_LEAVES = faucet_chosen.leaves (scaled-down network parameter).
FAUCET_LEAVES(env) == IF env = "production" THEN 2 ELSE 1

\* TREE_CHECKSUM / FAUCET_CHECKSUM / TREE_CHECKSUMS[i]: the digest pinned for
\* an artifact of the selected environment.
Checksum(env, kind) == <<env, kind>>

\* ------------------------------------------------------------ value spaces

Nonces == {1, 2}

\* A ciphertext record: 0 is a blob of some other key, n > 0 is a blob that
\* holds nonce n for the candidate secret.
Ciphertexts == {0} \cup Nonces

\* 32-byte hashes; 0 stands for a synthetic filler hash.
Hashes == {0} \cup Nonces

\* Requested fees: at the ordinary value, one unit above it, and one unit
\* above the sponsor value.
Fees == {NORMAL_FEE, NORMAL_FEE + 1, SPONSOR_FEE + 1}

Values == {NORMAL_FEE, SPONSOR_FEE}

\* key.type as handed to main; main treats a pgp key exactly as an ssh key.
KeyTypes == {"ssh", "addr"}

SeqsUpTo(S, n) == UNION {[1..k -> S] : k \in 0..n}

\* ------------------------------------------------------- external helpers

\* key.decrypt(ct, priv): throws unless the blob was made for this key.
CanDecrypt(ct) == ct # 0

\* key.decrypt(ct, priv) -> [nonce, seed]
Decrypt(ct) == <<ct, ct + 10>>

\* key.applyNonce(nonce) / key.applyTweak(nonce) followed by key.hash(): the
\* two transforms of one nonce give different keys, hence different hashes.
KeyHash(bare, nonce) == IF bare THEN (nonce % 2) + 1 ELSE nonce

\* p.getValue(): the mapped value for an address key, else the fixed reward.
GetValue(p) ==
  IF p.isAddress THEN p.value
  ELSE IF p.sponsor THEN SPONSOR_FEE ELSE NORMAL_FEE

\* merkle.createRoot(blake2b, hashes)
CreateRoot(hashes) == [root |-> hashes]

\* flattenLeaves(leaves): one merkle root per subtree.
flattenLeaves(leaves) == [k \in 1..Len(leaves) |-> CreateRoot(leaves[k])]

\* merkle.createBranch(blake2b, index, leaves)
CreateBranch(index, leaves) == [at |-> index, size |-> Len(leaves)]

\* proof.toBase64()
ToBase64(p) == [base64 |-> p]

\* ------------------------------------------------------------------ lookups

RECURSIVE ScanHashesSorted(_, _, _)
\* The scan as it would be if it relied on sorted leaves: it gives up at the
\* first hash greater than the target.
ScanHashesSorted(hashes, target, j) ==
  IF j > Len(hashes) THEN -1
  ELSE IF hashes[j] = target THEN j - 1
  ELSE IF hashes[j] > target THEN -1
  ELSE ScanHashesSorted(hashes, target, j + 1)

RECURSIVE ScanHashes(_, _, _)
\* for (let j = 0; j < hashes.length; j++) if (hash.equals(target)) return j
ScanHashes(hashes, target, j) ==
  IF j > Len(hashes) THEN -1
  ELSE IF hashes[j] = target THEN j - 1
  ELSE ScanHashes(hashes, target, j + 1)

RECURSIVE ScanLeaves(_, _, _)
ScanLeaves(leaves, target, i) ==
  IF i > Len(leaves) THEN <<-1, -1>>
  ELSE LET j == ScanHashes(leaves[i], target, 1)
       IN  IF j # -1 THEN <<i - 1, j>>
           ELSE ScanLeaves(leaves, target, i + 1)

\* findLeaf(leaves, target) -> [i, j] (0-based) or [-1, -1]
findLeaf(leaves, target) == ScanLeaves(leaves, target, 1)

\* findFaucetLeaf(leaves, target) -> i (0-based) or -1
findFaucetLeaf(leaves, target) == ScanHashes(leaves, target, 1)

\* ------------------------------------------------------------------- files

\* A digest that is not the pinned one.
BadSum == <<"other", "other">>

Sums(env, kind) == {Checksum(env, kind), BadSum}

\* Main trees: one record of SUBTREE_LEAVES hashes per top-level leaf.
Subtrees == {<<0, 0>>, <<1, 0>>, <<0, 2>>, <<2, 1>>}

Trees == [1..1 -> Subtrees] \cup [1..2 -> Subtrees]

FaucetLists == [1..1 -> Hashes] \cup [1..2 -> Hashes]

\* tree.bin / faucet.bin: a u32 count, complete records, and `tail` bytes
\* that are fewer than one record.
CountedFiles(sum, Bodies) ==
  {[sum |-> sum, count |-> c, recs |-> b, tail |-> t] :
     c \in 0..3, b \in Bodies, t \in {0, 1}}

\* nonces/NNN.bin: a sequence of {u16 length, bytes} ciphertext records.
NonceFiles(sum) ==
  {[sum |-> sum, recs |-> b] : b \in SeqsUpTo(Ciphertexts, MaxRecords)}

\* Where readFile gets the bytes: the cache, a download, or a download that
\* fails.
Sources == {"cached", "downloaded", "unreachable"}

\* readFile as it would be without the checksum comparison on the download
\* branch.
readFileTrustDownload(source, sum, checksum) ==
  IF source # "cached"
    THEN IF source = "unreachable" THEN "Request failed" ELSE "ok"
    ELSE IF sum # checksum THEN "Invalid checksum"
         ELSE "ok"

\* readFile(...path): the pinned checksum is compared on the downloaded and
\* on the cached path alike; a failed download throws.
readFile(source, sum, checksum) ==
  IF source # "cached"
    THEN IF source = "unreachable" THEN "Request failed"
         ELSE IF sum # checksum THEN "Invalid checksum"
         ELSE "ok"
    ELSE IF sum # checksum THEN "Invalid checksum"
         ELSE "ok"

\* The body of readLeaves / readFaucetLeaves after the file is read: the read
\* loop throws on short data, then the two assertions.
ParseCounted(raw, expected) ==
  LET totalLeaves == raw.count
  IN  IF totalLeaves > Len(raw.recs) THEN "Out of bounds read"
      ELSE IF (Len(raw.recs) - totalLeaves) + raw.tail # 0
             THEN "AssertionError: br.left() === 0"
      ELSE IF totalLeaves # expected
             THEN "AssertionError: totalLeaves"
      ELSE "ok"

\* readLeaves(): the parse of tree.bin against TREE_LEAVES.
readLeaves(raw, env) == ParseCounted(raw, TREE_LEAVES(env))

\* readFaucetLeaves(): the parse of faucet.bin against FAUCET_LEAVES.
readFaucetLeaves(raw, env) == ParseCounted(raw, FAUCET_LEAVES(env))

\* An artifact readFile returned, kept for the run: what is true of its
\* bytes.
LoadFact(kind, raw, env, expected) ==
  [kind    |-> kind,
   sumOk   |-> raw.sum = Checksum(env, kind),
   shape   |-> IF kind = "nonces" THEN "exact"
               ELSE IF raw.count > Len(raw.recs) THEN "short"
               ELSE IF raw.count < Len(raw.recs) \/ raw.tail > 0 THEN "left"
               ELSE "exact",
   countOk |-> kind = "nonces" \/ raw.count = expected]

\* ------------------------------------------------------------------- state

VARIABLES
  via,      \* the function the caller invoked
  env,      \* environment argument selecting the network parameters
  pc,       \* position of the run
  options,  \* the options object
  bucket,   \* records of the nonce file being scanned
  br,       \* reader position in the nonce file (1-based record index)
  out,      \* findNonces: successful decryptions so far
  items,    \* createKeyProofs: the NonceSeedPairs returned by findNonces
  leaves,   \* parsed tree (list of subtrees) or faucet list
  i,        \* loop index over items / options.entries (0-based)
  p,        \* the proof under construction
  proofs,   \* proofs pushed so far
  returned, \* the list a createXProofs call returned (<<>> until it returns)
  output,   \* what main handed back to its caller
  calls,    \* functions executed so far in the run
  loads,    \* facts about each artifact loaded
  error,    \* message of the error that ended the run, "" if none
  target,   \* lookup specification: the hash looked for
  found     \* lookup specification: what the lookup returned

vars == <<via, env, pc, options, bucket, br, out, items, leaves, i, p,
          proofs, returned, output, calls, loads, error, target, found>>

NoProof ==
  [index |-> -1, subindex |-> -1, proof |-> CreateBranch(-1, <<>>),
   subproof |-> CreateBranch(-1, <<>>), key |-> -1, nonce |-> -1,
   fee |-> 0, isAddress |-> FALSE, sponsor |-> FALSE, value |-> 0,
   signed |-> FALSE, verified |-> FALSE]

NoOptions ==
  [type |-> OptionsType, bare |-> OptionsBare, fee |-> 0, sponsor |-> FALSE,
   keyType |-> "null", entries |-> <<>>]

Init ==
  /\ via = "none"
  /\ env \in Environments
  /\ pc = "start"
  /\ options = NoOptions
  /\ bucket = <<>>
  /\ br = 0
  /\ out = <<>>
  /\ items = <<>>
  /\ leaves = <<>>
  /\ i = 0
  /\ p = NoProof
  /\ proofs = <<>>
  /\ returned = <<>>
  /\ output = <<>>
  /\ calls = {}
  /\ loads = {}
  /\ error = ""
  /\ target = 0
  /\ found = <<>>

\* A thrown error ends the run: nothing is returned.
Throw(msg) ==
  /\ pc' = "failed"
  /\ error' = msg

\* ------------------------------------------------------------ entry points

Addresses ==
  {[hrp |-> h, version |-> v, len |-> l] :
     h \in {"hs", "ts", "rs", "bc"}, v \in {0, 1}, l \in {20, 32, 16}}

\* parseAddress(addr): the error it throws, or "ok".
parseAddress(addr) ==
  IF addr.hrp # "hs" /\ addr.hrp # "ts" /\ addr.hrp # "rs"
    THEN "Invalid address HRP."
  ELSE IF addr.version # 0 THEN "Invalid address version."
  ELSE IF addr.len # 20 /\ addr.len # 32 THEN "Invalid address."
  ELSE "ok"

\* const proofs = options.type !== 'addr' ? createKeyProofs : createAddrProofs
Dispatch(opts) ==
  IF opts.type # "addr" THEN "findNonces" ELSE "readFaucetLeaves"

\* main(key, address, fee, environment) up to the call of a proof builder.
\* privOk: whether SSHPrivateKey.fromString(key.priv) accepts the key.
main(keyType, sponsor, address, privOk, fee) ==
  /\ pc = "start"
  /\ via' = "main"
  /\ calls' = calls \cup {"main"}
  /\ IF parseAddress(address) # "ok"
       THEN Throw(parseAddress(address)) /\ UNCHANGED options
     ELSE IF ~privOk
       THEN Throw("Invalid SSH private key.") /\ UNCHANGED options
     ELSE LET opts == [type |-> OptionsType, bare |-> OptionsBare,
                       fee |-> fee, sponsor |-> sponsor,
                       keyType |-> keyType, entries |-> <<>>]
          IN  /\ options' = opts
              /\ pc' = Dispatch(opts)
              /\ error' = error
  /\ UNCHANGED <<env, bucket, br, out, items, leaves, i, p, proofs,
                 returned, output, loads,
                 target, found>>

\* A caller invoking createKeyProofs(options) with options of its own, the
\* bare flag among them.
CallCreateKeyProofs(bare, sponsor, fee) ==
  /\ pc = "start"
  /\ via' = "createKeyProofs"
  /\ options' = [type |-> "ssh", bare |-> bare, fee |-> fee,
                 sponsor |-> sponsor, keyType |-> "ssh", entries |-> <<>>]
  /\ pc' = "findNonces"
  /\ UNCHANGED <<env, bucket, br, out, items, leaves, i, p, proofs,
                 returned, output, calls, loads, error,
                 target, found>>

\* Entries of the proof mapping: [address, value, sponsor]. An ordinary entry
\* carries the ordinary value; a sponsor entry may be mapped to either.
AddrEntries ==
  {e \in [hash : Nonces, sponsor : BOOLEAN, value : Values] :
     e.sponsor \/ e.value = NORMAL_FEE}

\* A caller invoking createAddrProofs(options) with options.entries filled
\* as readEntries fills them.
CallCreateAddrProofs(entries, fee) ==
  /\ pc = "start"
  /\ via' = "createAddrProofs"
  /\ options' = [type |-> "addr", bare |-> FALSE, fee |-> fee,
                 sponsor |-> FALSE, keyType |-> "addr", entries |-> entries]
  /\ pc' = "readFaucetLeaves"
  /\ UNCHANGED <<env, bucket, br, out, items, leaves, i, p, proofs,
                 returned, output, calls, loads, error,
                 target, found>>

\* -------------------------------------------------------------- findNonces

\* The loop body as it would be if a failed decryption ended the collecting:
\* nothing is pushed once a record has failed after a success.
ScanStepFirstOnly(acc, ct) ==
  IF CanDecrypt(ct) /\ acc = <<>> THEN Append(acc, Decrypt(ct)) ELSE acc

\* The check as it would be if an empty result were returned as it is.
NoNonceIgnored(acc) == FALSE

\* try { out.push(key.decrypt(ct, priv)); } catch (e) { continue; }
ScanStep(acc, ct) ==
  IF CanDecrypt(ct) THEN Append(acc, Decrypt(ct)) ELSE acc

\* if (out.length === 0) throw NonceError
NoNonce(acc) == Len(acc) = 0

\* findNonces: readNonceFile(bucket) and the reader set-up.
FindNoncesRead ==
  /\ pc = "findNonces"
  /\ calls' = calls \cup {"createKeyProofs", "findNonces"}
  /\ \E source \in Sources, sum \in Sums(env, "nonces") :
       LET r == readFile(source, sum, Checksum(env, "nonces"))
       IN  IF r # "ok"
             THEN Throw(r) /\ UNCHANGED <<bucket, br, out, loads>>
             ELSE \E raw \in NonceFiles(sum) :
                    /\ loads' = loads \cup
                                  {LoadFact("nonces", raw, env, 0)}
                    /\ bucket' = raw.recs
                    /\ br' = 1
                    /\ out' = <<>>
                    /\ pc' = "scan"
                    /\ error' = error
  /\ UNCHANGED <<via, env, options, items, leaves, i, p, proofs, returned,
                 output,
                 target, found>>

\* findNonces: one iteration of while (br.left()).
FindNoncesScan ==
  /\ pc = "scan"
  /\ br <= Len(bucket)
  /\ out' = ScanStep(out, bucket[br])
  /\ br' = br + 1
  /\ UNCHANGED <<via, env, pc, options, bucket, items, leaves, i, p, proofs,
                 returned, output, calls, loads, error,
                 target, found>>

\* findNonces: the loop has ended; throw NonceError or return out.
FindNoncesEnd ==
  /\ pc = "scan"
  /\ br > Len(bucket)
  /\ IF NoNonce(out)
       THEN Throw("NonceError: Could not find nonce in bucket.")
            /\ UNCHANGED <<bucket, br, out, items>>
       ELSE /\ items' = out
            /\ bucket' = <<>>
            /\ br' = 0
            /\ out' = <<>>
            /\ pc' = "readLeaves"
            /\ error' = error
  /\ UNCHANGED <<via, env, options, leaves, i, p, proofs, returned, output,
                 calls, loads,
                 target, found>>

\* --------------------------------------------------------- createKeyProofs

\* createKeyProofs: const leaves = await readLeaves().
KeyReadLeaves ==
  /\ pc = "readLeaves"
  /\ calls' = calls \cup {"readLeaves"}
  /\ \E source \in Sources, sum \in Sums(env, "tree") :
       LET r == readFile(source, sum, Checksum(env, "tree"))
       IN  IF r # "ok"
             THEN Throw(r) /\ UNCHANGED <<leaves, i, proofs, loads>>
             ELSE \E raw \in CountedFiles(sum, Trees) :
                /\ loads' = loads \cup
                     {LoadFact("tree", raw, env, TREE_LEAVES(env))}
                /\ IF readLeaves(raw, env) # "ok"
                     THEN /\ Throw(readLeaves(raw, env))
                          /\ UNCHANGED <<leaves, i, proofs>>
                     ELSE /\ leaves' = raw.recs
                          /\ i' = 0
                          /\ proofs' = <<>>
                          /\ pc' = "loop"
                          /\ error' = error
  /\ UNCHANGED <<via, env, options, bucket, br, out, items, p, returned,
                 output,
                 target, found>>

\* The fee check as it would be with the boundary excluded.
FeeExceedsOffByOne(q) == q.fee >= GetValue(q)

\* The verification check as it would be if its result were not looked at.
VerifyNeverFails(ok) == FALSE

\* if (p.fee > p.getValue()) throw new Error('Fee exceeds value!')
FeeExceeds(q) == q.fee > GetValue(q)

\* if (!p.verify()) throw new Error('Proof failed verification.')
VerifyFails(ok) == ~ok

\* createKeyProofs loop body up to p.fee = options.fee: transform a clone of
\* the key, find its leaf, diff the subtree, build both branches, fill p.
KeyAssemble ==
  /\ pc = "loop"
  /\ i < Len(items)
  /\ LET nonce == items[i + 1][1]
         hash  == KeyHash(options.bare, nonce)
         loc   == findLeaf(leaves, hash)
         index == loc[1]
         subindex == loc[2]
         xform == IF options.bare THEN "applyNonce" ELSE "applyTweak"
     IN  IF index = -1
           THEN /\ Throw("Could not find leaf.")
                /\ calls' = calls \cup {xform, "findLeaf"}
                /\ UNCHANGED p
           ELSE /\ p' = [index |-> index, subindex |-> subindex,
                         proof |-> CreateBranch(index, flattenLeaves(leaves)),
                         subproof |-> CreateBranch(subindex, leaves[index + 1]),
                         key |-> hash, nonce |-> nonce, fee |-> options.fee,
                         isAddress |-> FALSE, sponsor |-> options.sponsor,
                         value |-> 0, signed |-> FALSE, verified |-> FALSE]
                /\ calls' = calls \cup {xform, "findLeaf", "diffSubtree",
                                        "createBranch"}
                /\ pc' = "fee"
                /\ error' = error
  /\ UNCHANGED <<via, env, options, bucket, br, out, items, leaves, i, proofs,
                 returned, output, loads,
                 target, found>>

\* createKeyProofs: the fee check that precedes signing.
KeyFeeCheck ==
  /\ pc = "fee"
  /\ IF FeeExceeds(p)
       THEN Throw("Fee exceeds value!")
       ELSE pc' = "sign" /\ error' = error
  /\ UNCHANGED <<via, env, options, bucket, br, out, items, leaves, i, p,
                 proofs, returned, output, calls, loads,
                 target, found>>

\* createKeyProofs: p.sign(key, priv).
KeySign ==
  /\ pc = "sign"
  /\ p' = [p EXCEPT !.signed = TRUE]
  /\ calls' = calls \cup {"sign"}
  /\ pc' = "verify"
  /\ UNCHANGED <<via, env, options, bucket, br, out, items, leaves, i, proofs,
                 returned, output, loads, error,
                 target, found>>

\* createKeyProofs: p.verify(), then proofs.push(p) and the next iteration.
\* The outcome of verify() is the external verifier's.
KeyVerify ==
  /\ pc = "verify"
  /\ calls' = calls \cup {"verify"}
  /\ \E ok \in BOOLEAN :
       IF VerifyFails(ok)
         THEN Throw("Proof failed verification.") /\ UNCHANGED <<p, proofs, i>>
         ELSE /\ proofs' = Append(proofs, [p EXCEPT !.verified = ok])
              /\ p' = NoProof
              /\ i' = i + 1
              /\ pc' = "loop"
              /\ error' = error
  /\ UNCHANGED <<via, env, options, bucket, br, out, items, leaves, returned,
                 output, loads,
                 target, found>>

\* createKeyProofs: return proofs.
KeyReturn ==
  /\ pc = "loop"
  /\ i >= Len(items)
  /\ returned' = proofs
  /\ pc' = IF via = "main" THEN "mainReturn" ELSE "done"
  /\ UNCHANGED <<via, env, options, bucket, br, out, items, leaves, i, p,
                 proofs, output, calls, loads, error,
                 target, found>>

\* -------------------------------------------------------- createAddrProofs

\* p.fee = pub.sponsor ? 500e6 : 100e6
AddrFee(pub) == IF pub.sponsor THEN SPONSOR_FEE ELSE NORMAL_FEE

\* createAddrProofs: const leaves = await readFaucetLeaves().
AddrReadLeaves ==
  /\ pc = "readFaucetLeaves"
  /\ calls' = calls \cup {"createAddrProofs", "readFaucetLeaves"}
  /\ \E source \in Sources, sum \in Sums(env, "faucet") :
       LET r == readFile(source, sum, Checksum(env, "faucet"))
       IN  IF r # "ok"
             THEN Throw(r) /\ UNCHANGED <<leaves, i, proofs, loads>>
             ELSE \E raw \in CountedFiles(sum, FaucetLists) :
                /\ loads' = loads \cup
                     {LoadFact("faucet", raw, env, FAUCET_LEAVES(env))}
                /\ IF readFaucetLeaves(raw, env) # "ok"
                     THEN /\ Throw(readFaucetLeaves(raw, env))
                          /\ UNCHANGED <<leaves, i, proofs>>
                     ELSE /\ leaves' = raw.recs
                          /\ i' = 0
                          /\ proofs' = <<>>
                          /\ pc' = "addrLoop"
                          /\ error' = error
  /\ UNCHANGED <<via, env, options, bucket, br, out, items, p, returned,
                 output,
                 target, found>>

\* createAddrProofs loop body up to assert(p.fee <= p.getValue()).
AddrAssemble ==
  /\ pc = "addrLoop"
  /\ i < Len(options.entries)
  /\ LET pub   == options.entries[i + 1]
         index == findFaucetLeaf(leaves, pub.hash)
         q     == [index |-> index, subindex |-> -1,
                   proof |-> CreateBranch(index, leaves),
                   subproof |-> CreateBranch(-1, <<>>),
                   key |-> pub.hash, nonce |-> -1, fee |-> AddrFee(pub),
                   isAddress |-> TRUE, sponsor |-> pub.sponsor,
                   value |-> pub.value, signed |-> FALSE, verified |-> FALSE]
     IN  IF index = -1
           THEN /\ Throw("Could not find leaf.")
                /\ calls' = calls \cup {"findFaucetLeaf"}
                /\ UNCHANGED p
         ELSE IF ~(q.fee <= GetValue(q))
           THEN /\ Throw("AssertionError: p.fee <= p.getValue()")
                /\ calls' = calls \cup {"findFaucetLeaf", "createBranch"}
                /\ p' = q
           ELSE /\ p' = q
                /\ calls' = calls \cup {"findFaucetLeaf", "createBranch"}
                /\ pc' = "addrVerify"
                /\ error' = error
  /\ UNCHANGED <<via, env, options, bucket, br, out, items, leaves, i, proofs,
                 returned, output, loads,
                 target, found>>

\* createAddrProofs: p.verify(), then proofs.push(p) and the next entry.
AddrVerify ==
  /\ pc = "addrVerify"
  /\ calls' = calls \cup {"verify"}
  /\ \E ok \in BOOLEAN :
       IF VerifyFails(ok)
         THEN Throw("Proof failed verification.") /\ UNCHANGED <<p, proofs, i>>
         ELSE /\ proofs' = Append(proofs, [p EXCEPT !.verified = ok])
              /\ p' = NoProof
              /\ i' = i + 1
              /\ pc' = "addrLoop"
              /\ error' = error
  /\ UNCHANGED <<via, env, options, bucket, br, out, items, leaves, returned,
                 output, loads,
                 target, found>>

\* createAddrProofs: return proofs.
AddrReturn ==
  /\ pc = "addrLoop"
  /\ i >= Len(options.entries)
  /\ returned' = proofs
  /\ pc' = IF via = "main" THEN "mainReturn" ELSE "done"
  /\ UNCHANGED <<via, env, options, bucket, br, out, items, leaves, i, p,
                 proofs, output, calls, loads, error,
                 target, found>>

\* ------------------------------------------------------------ main's return

\* for (const [i, proof] of proofs.entries()) { return proof.toBase64(); }
MainOutput(list) == IF Len(list) = 0 THEN <<>> ELSE <<ToBase64(list[1])>>

MainReturn ==
  /\ pc = "mainReturn"
  /\ output' = MainOutput(returned)
  /\ pc' = "done"
  /\ UNCHANGED <<via, env, options, bucket, br, out, items, leaves, i, p,
                 proofs, returned, calls, loads, error,
                 target, found>>

Next ==
  \/ \E keyType \in KeyTypes, sponsor \in BOOLEAN, address \in Addresses,
        privOk \in BOOLEAN, fee \in Fees :
       main(keyType, sponsor, address, privOk, fee)
  \/ \E bare \in BOOLEAN, sponsor \in BOOLEAN, fee \in Fees :
       CallCreateKeyProofs(bare, sponsor, fee)
  \/ \E entries \in SeqsUpTo(AddrEntries, MaxEntries), fee \in Fees :
       CallCreateAddrProofs(entries, fee)
  \/ FindNoncesRead
  \/ FindNoncesScan
  \/ FindNoncesEnd
  \/ KeyReadLeaves
  \/ KeyFeeCheck
  \/ KeyAssemble
  \/ KeySign
  \/ KeyVerify
  \/ KeyReturn
  \/ AddrReadLeaves
  \/ AddrAssemble
  \/ AddrVerify
  \/ AddrReturn
  \/ MainReturn

Spec == Init /\ [][Next]_vars

\* ------------------------------------------------- lookup specification

\* Main trees and flat lists of any shape, sorted or not, with repeats.
FindTrees == SeqsUpTo(SeqsUpTo(Hashes, 2), MaxLeaves)

FindLists == SeqsUpTo(Hashes, MaxLeaves + 1)

InitFind ==
  /\ via \in {"findLeaf", "findFaucetLeaf"}
  /\ env = "production"
  /\ pc = "find"
  /\ options = NoOptions
  /\ bucket = <<>>
  /\ br = 0
  /\ out = <<>>
  /\ items = <<>>
  /\ leaves \in IF via = "findLeaf" THEN FindTrees ELSE FindLists
  /\ i = 0
  /\ p = NoProof
  /\ proofs = <<>>
  /\ returned = <<>>
  /\ output = <<>>
  /\ calls = {}
  /\ loads = {}
  /\ error = ""
  /\ target \in Hashes
  /\ found = <<>>

ApplyFindLeaf ==
  /\ pc = "find"
  /\ via = "findLeaf"
  /\ found' = findLeaf(leaves, target)
  /\ pc' = "found"
  /\ UNCHANGED <<via, env, options, bucket, br, out, items, leaves, i, p,
                 proofs, returned, output, calls, loads, error, target>>

ApplyFindFaucetLeaf ==
  /\ pc = "find"
  /\ via = "findFaucetLeaf"
  /\ found' = <<findFaucetLeaf(leaves, target)>>
  /\ pc' = "found"
  /\ UNCHANGED <<via, env, options, bucket, br, out, items, leaves, i, p,
                 proofs, returned, output, calls, loads, error, target>>

NextFind == ApplyFindLeaf \/ ApplyFindFaucetLeaf

SpecFind == InitFind /\ [][NextFind]_vars

\* ------------------------------------------------------------------ claims

\* The run has got as far as building a proof.
ProofWork ==
  \/ p # NoProof
  \/ proofs # <<>>
  \/ returned # <<>>
  \/ output # <<>>
  \/ "createBranch" \in calls

\* The createXProofs call has returned its list.
HasReturned == pc \in {"mainReturn", "done"}

\* C1: on the key-origin path a fee above the entry's value ends the run with
\* 'Fee exceeds value!' while the proof is still unsigned, a fee equal to the
\* value passes the check, and every proof pushed or returned carries exactly
\* the requested fee, which is at most its value.
C1_FeeInvariant ==
  /\ error = "Fee exceeds value!" =>
       /\ pc = "failed"
       /\ p.fee > GetValue(p)
       /\ p.signed = FALSE
       /\ "sign" \in calls => Len(proofs) > 0
  /\ (pc \in {"sign", "verify"} \/ p.signed) => p.fee <= GetValue(p)
  /\ \A k \in 1..Len(proofs) :
       ~proofs[k].isAddress =>
         /\ proofs[k].fee = options.fee
         /\ proofs[k].fee <= GetValue(proofs[k])
  /\ \A k \in 1..Len(returned) :
       ~returned[k].isAddress =>
         /\ returned[k].fee = options.fee
         /\ returned[k].fee <= GetValue(returned[k])

\* C1 witness: a key-origin call returned a proof whose fee equals its value.
C1_Witness ==
  /\ HasReturned
  /\ Len(returned) >= 1
  /\ ~returned[1].isAddress
  /\ returned[1].fee = GetValue(returned[1])
  /\ returned[1].signed

\* A proof all of whose fields were written before verify() accepted it.
Complete(q) ==
  /\ q.verified
  /\ q.index >= 0
  /\ q.key >= 0
  /\ q.proof.at = q.index
  /\ q.isAddress => q.fee \in {NORMAL_FEE, SPONSOR_FEE}
  /\ ~q.isAddress => q.signed /\ q.subindex >= 0 /\ q.subproof.at = q.subindex

\* C2: every proof pushed or returned by createKeyProofs / createAddrProofs
\* passed verify() with all its fields (and, key-origin, its signature)
\* written; a failed verify() ends the call with 'Proof failed verification.'
\* and nothing is returned.
C2_ReturnedProofsVerified ==
  /\ \A k \in 1..Len(proofs) : Complete(proofs[k])
  /\ \A k \in 1..Len(returned) : Complete(returned[k])
  /\ error = "Proof failed verification." =>
       /\ pc = "failed"
       /\ returned = <<>>
       /\ output = <<>>
       /\ "verify" \in calls

\* C2 witness: a key-origin call returned two verified, signed proofs.
C2_Witness ==
  /\ HasReturned
  /\ Len(returned) = 2
  /\ returned[2].verified
  /\ returned[2].signed

RECURSIVE Decrypted(_)
\* The decryption results of the records of a bucket that decrypt, in order.
Decrypted(recs) ==
  IF recs = <<>> THEN <<>>
  ELSE (IF CanDecrypt(Head(recs)) THEN <<Decrypt(Head(recs))>> ELSE <<>>)
       \o Decrypted(Tail(recs))

\* C3: findNonces reads the records one by one in file order; after each
\* record `out` holds exactly the decryptions of the records read so far, a
\* record that does not decrypt adds nothing and the scan goes on, and what
\* findNonces returns is the decryptions of the whole file, in file order.
C3_FindNoncesCollects ==
  /\ [](pc = "scan" =>
          /\ br \in 1..(Len(bucket) + 1)
          /\ out = Decrypted(SubSeq(bucket, 1, br - 1)))
  /\ [][(pc = "scan" /\ pc' = "scan") => br' = br + 1]_vars
  /\ [][(pc = "scan" /\ pc' = "readLeaves") =>
          /\ br = Len(bucket) + 1
          /\ items' = Decrypted(bucket)
          /\ items' # <<>>]_vars

\* C3 witness: three records of which only the second decrypts, scanned to
\* the end, gave the single pair of the second record.
C3_Witness ==
  /\ pc = "scan"
  /\ Len(bucket) = 3
  /\ br = 4
  /\ ~CanDecrypt(bucket[1])
  /\ CanDecrypt(bucket[2])
  /\ ~CanDecrypt(bucket[3])
  /\ out = <<Decrypt(bucket[2])>>

\* C4: a bucket in which no record decrypts (an empty one included) makes
\* findNonces throw NonceError rather than return an empty list, and
\* createKeyProofs then reads no tree, builds no proof and returns nothing.
C4_NoNonceIsFatal ==
  /\ error = "NonceError: Could not find nonce in bucket." =>
       /\ pc = "failed"
       /\ \A k \in 1..Len(bucket) : ~CanDecrypt(bucket[k])
       /\ br = Len(bucket) + 1
       /\ "readLeaves" \notin calls
       /\ \A l \in loads : l.kind = "nonces"
       /\ leaves = <<>>
       /\ ~ProofWork
  /\ (pc = "readLeaves" \/ "readLeaves" \in calls) => items # <<>>

\* C4 witness: a bucket of two records, neither decrypting, ended the run
\* with NonceError.
C4_Witness ==
  /\ error = "NonceError: Could not find nonce in bucket."
  /\ Len(bucket) = 2

\* Positions (0-based) at which target occurs in a main tree.
Occurrences(tree, t) ==
  {x \in (0..(Len(tree) - 1)) \X (0..1) :
     x[2] + 1 <= Len(tree[x[1] + 1]) /\ tree[x[1] + 1][x[2] + 1] = t}

\* C5: findLeaf returns [-1,-1] iff the target is in no subtree and else the
\* first match in scan order (smallest i, then smallest j); findFaucetLeaf
\* returns -1 iff the target is absent and else the smallest matching i;
\* the leaves need not be sorted.
C5_FindReturnsFirstMatch ==
  /\ (pc = "found" /\ via = "findLeaf") =>
       LET occ == Occurrences(leaves, target)
       IN  /\ (found = <<-1, -1>>) <=> (occ = {})
           /\ occ # {} =>
                /\ found \in occ
                /\ \A x \in occ :
                     found[1] < x[1] \/ (found[1] = x[1] /\ found[2] <= x[2])
  /\ (pc = "found" /\ via = "findFaucetLeaf") =>
       LET occ == {k \in 1..Len(leaves) : leaves[k] = target}
       IN  /\ (found = <<-1>>) <=> (occ = {})
           /\ occ # {} =>
                /\ found[1] + 1 \in occ
                /\ \A k \in occ : found[1] + 1 <= k

\* C5 witness: in an unsorted tree holding the target twice, findLeaf
\* returned the first of the two positions.
C5_Witness ==
  /\ pc = "found"
  /\ via = "findLeaf"
  /\ leaves = <<<<2, 1>>, <<0, 1>>>>
  /\ target = 1
  /\ found = <<0, 1>>

\* C6: no proof work happens unless every artifact readFile returned carried
\* the pinned checksum and the tree / faucet file parsed with nothing left,
\* nothing short and a count equal to the selected network parameter; any
\* artifact failing one of these means the run has failed with no proof work.
C6_IntegrityBeforeProofs ==
  /\ (ProofWork \/ pc \in {"loop", "fee", "sign", "verify", "addrLoop",
                           "addrVerify", "mainReturn", "done"}) =>
       /\ \A l \in loads : l.sumOk /\ l.shape = "exact" /\ l.countOk
       /\ \E l \in loads : l.kind \in {"tree", "faucet"}
       /\ Len(leaves) = IF "createAddrProofs" \in calls
                          THEN FAUCET_LEAVES(env) ELSE TREE_LEAVES(env)
  /\ (\E l \in loads : ~l.sumOk \/ l.shape # "exact" \/ ~l.countOk) =>
       /\ pc = "failed"
       /\ ~ProofWork
  /\ pc \in {"scan", "readLeaves"} => \A l \in loads : l.sumOk

\* C6 witness: a proof is assembled after the nonce file and the tree were
\* loaded.
C6_Witness ==
  /\ pc = "fee"
  /\ p # NoProof
  /\ Cardinality(loads) = 2

\* C7 (as claimed): a run started through main for an address-origin key
\* never executes findNonces, applyNonce / applyTweak or diffSubtree, and what
\* it returns was built by createAddrProofs.
C7_AddrRunSkipsKeyPath ==
  (via = "main" /\ options.keyType = "addr") =>
    /\ calls \cap {"findNonces", "applyNonce", "applyTweak", "diffSubtree",
                   "sign"} = {}
    /\ HasReturned => "createAddrProofs" \in calls

\* C8 (as claimed): an address-origin redemption that requests a fee of the
\* entry's value + 1 produces no proof for that entry.
C8_AddrFeeAboveValueFails ==
  \A k \in 1..Len(proofs) :
    proofs[k].isAddress => options.fee # proofs[k].value + 1

\* C9 (as claimed): a leaf-not-found is fatal to its own attempt only: the
\* call never ends on it with later attempts unprocessed or with proofs
\* already built thrown away.
C9_NotFoundIsPerAttempt ==
  error = "Could not find leaf." =>
    /\ proofs = <<>>
    /\ i + 1 = (IF "createAddrProofs" \in calls
                  THEN Len(options.entries) ELSE Len(items))

\* C10 (as claimed): an error-free key-origin run through main that
\* discovered n pairs hands back n proofs, the k-th built from the k-th pair.
C10_MainDeliversAllProofs ==
  (via = "main" /\ pc = "done") =>
    /\ Len(output) = Len(items)
    /\ \A k \in 1..Len(output) :
         output[k].base64.nonce = items[k][1]

====
